---- MODULE Spec2Model ----
(***************************************************************************)
(* A model of bloggg.py, a markdown site generator: frontmatter parsing,   *)
(* asset-path rewriting, breadcrumbs, page rendering, the full pass over   *)
(* the input tree and the watch mode.                                      *)
(*                                                                         *)
(* Text is a sequence of one-character strings.  Offsets are Python's:     *)
(* 0-based, a slice s[a:b] holds the characters a .. b-1.                  *)
(* A path is the sequence of its parts (pathlib's Path.parts); a part is a *)
(* record [stem, suffix] of two texts, its name being stem followed by     *)
(* suffix, so that Path.suffix and Path.with_suffix act on the last part   *)
(* as pathlib does.                                                        *)
(***************************************************************************)
EXTENDS Integers, Sequences, FiniteSets, TLC

VARIABLES
    input_root,     \* Path(args.input), as the user gave it
    doc,            \* the document path handed to the function under study
    tmpl,           \* the template text handed to patch_referenced_files
    result,         \* what the last function application returned and printed
    inTree,         \* the input tree: relative path -> text of the file
    outTree,        \* the output tree: relative path -> text of the file
    pc,             \* position of main()
    queue,          \* file-change events the observer has not dispatched yet
    observer,       \* state of the observer's dispatching thread
    watch,          \* args.watch
    last,           \* the last run of process_all or of an event handler
    events          \* number of file changes made so far

vars == <<input_root, doc, tmpl, result, inTree, outTree, pc,
          queue, observer, watch, last, events>>

-----------------------------------------------------------------------------
(* Text *)

Min(a, b) == IF a < b THEN a ELSE b
Max(a, b) == IF a > b THEN a ELSE b

\* s[a:b] with Python's clamping of the bounds
Slice(s, a, b) == SubSeq(s, Min(Max(a, 0), Len(s)) + 1, Min(Max(b, 0), Len(s)))

\* s[a:]
SliceFrom(s, a) == Slice(s, a, Len(s))

\* s.startswith(p, at)
StartsWithAt(s, p, at) == at + Len(p) <= Len(s) /\ Slice(s, at, at + Len(p)) = p

StartsWith(s, p) == StartsWithAt(s, p, 0)

\* s.find(p, from): the lowest offset >= from where p occurs, or -1
Find(s, p, from) ==
    LET hits == {i \in Max(from, 0)..(Len(s) - Len(p)) : StartsWithAt(s, p, i)}
    IN  IF hits = {} THEN -1 ELSE CHOOSE i \in hits : \A j \in hits : i <= j

RECURSIVE Repeat(_, _)
\* s * n
Repeat(s, n) == IF n <= 0 THEN <<>> ELSE s \o Repeat(s, n - 1)

RECURSIVE Replace(_, _, _)
\* s.replace(old, new): every non-overlapping occurrence, leftmost first
Replace(s, old, new) ==
    LET i == Find(s, old, 0)
    IN  IF i = -1 THEN s
        ELSE Slice(s, 0, i) \o new \o Replace(SliceFrom(s, i + Len(old)), old, new)

RECURSIVE Join(_, _)
\* sep.join(parts)
Join(sep, parts) ==
    IF parts = <<>> THEN <<>>
    ELSE IF Len(parts) = 1 THEN parts[1]
    ELSE parts[1] \o sep \o Join(sep, Tail(parts))

QUOTE == <<"\"">>
HREF == <<"h", "r", "e", "f">>
SRC == <<"s", "r", "c">>
EQ_QUOTE == <<"=", "\"">>
HTTP == <<"h", "t", "t", "p">>
HASH == <<"#">>
DOTDOTSLASH == <<".", ".", "/">>
DOTDOT == <<".", ".">>
SLASH == <<"/">>
TEMPLATES_DIR == <<"_", "t", "e", "m", "p", "l", "a", "t", "e", "s">>

-----------------------------------------------------------------------------
(* Paths *)

Part(stem, suffix) == [stem |-> stem, suffix |-> suffix]
Dir(name) == Part(name, <<>>)

\* Path.name
Name(p) == IF Len(p) = 0 THEN <<>> ELSE p[Len(p)].stem \o p[Len(p)].suffix

\* Path.suffix
Suffix(p) == IF Len(p) = 0 THEN <<>> ELSE p[Len(p)].suffix

\* Path.parent
Parent(p) == IF Len(p) = 0 THEN p ELSE SubSeq(p, 1, Len(p) - 1)

\* Path.with_suffix(suffix): the last part's suffix is replaced
WithSuffix(p, suffix) ==
    IF Len(p) = 0 THEN p ELSE Append(Parent(p), Part(p[Len(p)].stem, suffix))

\* q is p or lies under p (the condition under which q.relative_to(p) succeeds)
IsPrefix(p, q) == Len(p) <= Len(q) /\ SubSeq(q, 1, Len(p)) = p

\* q.relative_to(p), for p a prefix of q
RelativeTo(q, p) == SubSeq(q, Len(p) + 1, Len(q))

MD == <<".", "m", "d">>
HTML == <<".", "h", "t", "m", "l">>
CSS == <<".", "c", "s", "s">>
PNG == <<".", "p", "n", "g">>
ROOT_DIR == Dir(<<"/">>)
SITE == Dir(<<"s", "i", "t", "e">>)
WWW == Dir(<<"w", "w", "w">>)
PAGE == <<"p", "a", "g", "e">>
TEMPLATES == Dir(TEMPLATES_DIR)

-----------------------------------------------------------------------------
(* patch_referenced_files *)

\* One match of r'(href|src)="([^"]+)"' starting at offset i, or the record
\* with ok = FALSE.  [^"]+ is greedy and a quote must follow it, so group 2
\* runs from the opening quote to the next quote and holds at least one
\* character.
MatchAt(s, i) ==
    LET n  == IF StartsWithAt(s, HREF, i) THEN Len(HREF)
              ELSE IF StartsWithAt(s, SRC, i) THEN Len(SRC) ELSE 0
        v0 == i + n + Len(EQ_QUOTE)
        q  == Find(s, QUOTE, v0)
    IN  IF n > 0 /\ StartsWithAt(s, EQ_QUOTE, i + n) /\ q > v0
        THEN [ok |-> TRUE, start2 |-> v0, end2 |-> q, stop |-> q + 1,
              file |-> Slice(s, v0, q)]
        ELSE [ok |-> FALSE, start2 |-> 0, end2 |-> 0, stop |-> 0, file |-> <<>>]

RECURSIVE FindIter(_, _)
\* re.finditer over s from offset `from`: the non-overlapping matches, leftmost first
FindIter(s, from) ==
    LET hits == {i \in from..(Len(s) - 1) : MatchAt(s, i).ok}
    IN  IF hits = {} THEN <<>>
        ELSE LET i == CHOOSE i \in hits : \A j \in hits : i <= j
             IN  <<MatchAt(s, i)>> \o FindIter(s, MatchAt(s, i).stop)

\* the test of line 34
IsRelative(file) == ~StartsWith(file, HTTP) /\ ~StartsWith(file, HASH)

\* len(markdown_file.parts[:-2])
PartsButLastTwo(markdown_file) == Max(Len(markdown_file) - 2, 0)

\* lines 37-38: '../' * len(markdown_file.parts[:-2]) + '_templates' + '/' + file
AssetPath(file, markdown_file) ==
    Repeat(DOTDOTSLASH, PartsButLastTwo(markdown_file)) \o TEMPLATES_DIR \o SLASH \o file

RECURSIVE PatchLoop(_, _, _, _)
\* The loop of lines 32-42.  The matches were found in the text as it was
\* before the loop; each replacement is made at the match's offsets in the
\* text as it is now.
PatchLoop(final_html, matches, md, printed) ==
    IF matches = <<>> THEN [html |-> final_html, printed |-> printed]
    ELSE LET m == Head(matches)
         IN  IF IsRelative(m.file)
             THEN PatchLoop(Slice(final_html, 0, m.start2) \o AssetPath(m.file, md)
                                \o SliceFrom(final_html, m.end2),
                            Tail(matches), md, Append(printed, AssetPath(m.file, md)))
             ELSE PatchLoop(final_html, Tail(matches), md, printed)

patch_referenced_files(final_html, markdown_file) ==
    PatchLoop(final_html, FindIter(final_html, 0), markdown_file, <<>>)

-----------------------------------------------------------------------------
(* gen_breadcrumbs_html *)

ROOT_LABEL == <<"r", "o", "o", "t">>
INDEX == <<"i", "n", "d", "e", "x">>
NAV_OPEN ==
    <<"<", "n", "a", "v", " ", "c", "l", "a", "s", "s", "=", "\"", "b", "r", "e",
      "a", "d", "c", "r", "u", "m", "b", "s", "\"", ">">>
NAV_CLOSE == <<"<", "/", "n", "a", "v", ">">>
CRUMB_SEP == <<" ", "/", " ">>
A_OPEN == <<"<", "a", " ", "h", "r", "e", "f", "=", "\"">>
A_MID == <<"\"", ">">>
A_CLOSE == <<"<", "/", "a", ">">>

RECURSIVE UpToRoot(_, _)
\* lines 58-61: the loop that collects file_dir and its parents until it
\* meets input_root, then input_root itself
UpToRoot(file_dir, root) ==
    IF file_dir = root THEN <<root>>
    ELSE <<file_dir>> \o UpToRoot(Parent(file_dir), root)

\* A variant of lines 51-55 that takes the parent of every document, as if
\* each were an index page
CrumbStartAtParent(file_dir) == Parent(WithSuffix(file_dir, <<>>))

\* lines 51-55: the suffix is dropped, and a last part named index with it
CrumbStart(file_dir) ==
    IF Name(WithSuffix(file_dir, <<>>)) = INDEX
    THEN Parent(WithSuffix(file_dir, <<>>))
    ELSE WithSuffix(file_dir, <<>>)

\* the list `breadcrumbs` after line 61, the deepest path first
Breadcrumbs(file_dir, root) == UpToRoot(CrumbStart(file_dir), root)

Reverse(s) == [i \in 1..Len(s) |-> s[Len(s) + 1 - i]]

\* lines 72-73 for Python's index i (0-based) over breadcrumbs[::-1]
Crumb(breadcrumbs, i) ==
    [name |-> IF i = 0 THEN ROOT_LABEL ELSE Name(Reverse(breadcrumbs)[i + 1]),
     href |-> Join(SLASH, [j \in 1..(Len(breadcrumbs) - 1 - i) |-> DOTDOT])]

\* lines 64-73: the (name, href) pairs the loop renders, root first; none
\* when the list holds the root alone
CrumbsOf(breadcrumbs) ==
    IF Len(breadcrumbs) = 1 THEN <<>>
    ELSE [i \in 1..Len(breadcrumbs) |-> Crumb(breadcrumbs, i - 1)]

Crumbs(file_dir, root) == CrumbsOf(Breadcrumbs(file_dir, root))

CrumbHtml(c) == A_OPEN \o c.href \o A_MID \o c.name \o A_CLOSE

\* lines 64-75: the markup of the pairs, the empty text when there is none
RenderCrumbs(crumbs) ==
    IF crumbs = <<>> THEN <<>>
    ELSE NAV_OPEN
            \o Join(CRUMB_SEP, [i \in 1..Len(crumbs) |-> CrumbHtml(crumbs[i])])
            \o NAV_CLOSE

gen_breadcrumbs_html(file_dir, root) == RenderCrumbs(Crumbs(file_dir, root))

-----------------------------------------------------------------------------
(* parse_frontmatter *)

DASHES == <<"-", "-", "-">>
NEWLINE == <<"\n">>
COLON_SPACE == <<":", " ">>
KEY_TEMPLATE == <<"t", "e", "m", "p", "l", "a", "t", "e">>
KEY_TITLE == <<"t", "i", "t", "l", "e">>
KEY_DATE == <<"d", "a", "t", "e">>
DEFAULT == <<"d", "e", "f", "a", "u", "l", "t">>

\* The function with no argument: an empty tree, an empty mapping
NoTree == [p \in {} |-> <<>>]

Whitespace == {" ", "\n"}

RECURSIVE LStrip(_)
LStrip(s) == IF s # <<>> /\ Head(s) \in Whitespace THEN LStrip(Tail(s)) ELSE s

RECURSIVE RStrip(_)
RStrip(s) ==
    IF s # <<>> /\ s[Len(s)] \in Whitespace THEN RStrip(SubSeq(s, 1, Len(s) - 1)) ELSE s

\* s.strip()
Strip(s) == RStrip(LStrip(s))

RECURSIVE Lines(_)
\* s.split('\n')
Lines(s) ==
    IF Find(s, NEWLINE, 0) = -1 THEN <<s>>
    ELSE <<Slice(s, 0, Find(s, NEWLINE, 0))>> \o Lines(SliceFrom(s, Find(s, NEWLINE, 0) + 1))

\* yaml.safe_load on a block of `key: value` lines: None when the block
\* holds no line but blank ones, a mapping (a later line of a key winning)
\* when each line is a pair, and otherwise a value that is no mapping
safe_load(text) ==
    LET lines   == Lines(text)
        entries == {i \in 1..Len(lines) : Strip(lines[i]) # <<>>}
        IsPair(l) == Find(l, COLON_SPACE, 0) > 0
        KeyOf(l)  == Strip(Slice(l, 0, Find(l, COLON_SPACE, 0)))
        ValOf(l)  == Strip(SliceFrom(l, Find(l, COLON_SPACE, 0) + Len(COLON_SPACE)))
        LastOf(k) == CHOOSE i \in entries :
                        /\ KeyOf(lines[i]) = k
                        /\ \A j \in entries : KeyOf(lines[j]) = k => j <= i
    IN  IF entries = {} THEN [kind |-> "none", map |-> NoTree]
        ELSE IF \A i \in entries : IsPair(lines[i])
        THEN [kind |-> "mapping",
              map |-> [k \in {KeyOf(lines[i]) : i \in entries} |-> ValOf(lines[LastOf(k)])]]
        ELSE [kind |-> "other", map |-> NoTree]

\* lines 14-20
parse_frontmatter(markdown) ==
    LET start == Find(markdown, DASHES, 0)
        end   == Find(markdown, DASHES, start + 3)
    IN  IF start # -1 /\ end # -1
        THEN [frontmatter |-> safe_load(Slice(markdown, start + 3, end)),
              content |-> SliceFrom(markdown, end + 3)]
        ELSE [frontmatter |-> [kind |-> "none", map |-> NoTree], content |-> markdown]

\* dict.get(key, default)
Get(map, key, default) == IF key \in DOMAIN map THEN map[key] ELSE default

-----------------------------------------------------------------------------
(* process_markdown *)

DOC_TITLE == <<"$", "$", "D", "O", "C", "_", "T", "I", "T", "L", "E", "$", "$">>
DOC_DATE == <<"$", "$", "D", "O", "C", "_", "D", "A", "T", "E", "$", "$">>
DOC_CONTENT ==
    <<"$", "$", "D", "O", "C", "_", "C", "O", "N", "T", "E", "N", "T", "$", "$">>
BREADCRUMBS ==
    <<"$", "$", "B", "R", "E", "A", "D", "C", "R", "U", "M", "B", "S", "$", "$">>
WRITTEN == <<"W", "r", "i", "t", "t", "e", "n", " ">>
P_OPEN == <<"<", "p", ">">>
P_CLOSE == <<"<", "/", "p", ">", "\n">>
H1_MARK == <<"#", " ">>
H1_OPEN == <<"<", "h", "1", ">">>
H1_CLOSE == <<"<", "/", "h", "1", ">", "\n">>

\* mistletoe.markdown on a body of one line of plain text: a heading when
\* the line starts with `# `, else a paragraph; nothing for a blank body
markdown(content) ==
    IF Strip(content) = <<>> THEN <<>>
    ELSE IF StartsWith(Strip(content), H1_MARK)
    THEN H1_OPEN \o Strip(SliceFrom(Strip(content), Len(H1_MARK))) \o H1_CLOSE
    ELSE P_OPEN \o Strip(content) \o P_CLOSE

\* The process runs in the directory /
Cwd == <<ROOT_DIR>>

IsAbsolute(p) == Len(p) > 0 /\ p[1] = ROOT_DIR

\* os.path.abspath
Absolute(p) == IF IsAbsolute(p) THEN p ELSE Cwd \o p

\* os.path.relpath(p, os.getcwd())
Relpath(p) == RelativeTo(Absolute(p), Cwd)

\* The files of the model are those of the input tree, which holds them by
\* their path relative to the input root
IsFile(file, root, tree) ==
    /\ IsPrefix(Absolute(root), Absolute(file))
    /\ RelativeTo(Absolute(file), Absolute(root)) \in DOMAIN tree

ReadFile(file, root, tree) == tree[RelativeTo(Absolute(file), Absolute(root))]

Absent == [exists |-> FALSE, text |-> <<>>]

FileAt(tree, p) == IF p \in DOMAIN tree THEN [exists |-> TRUE, text |-> tree[p]] ELSE Absent

\* open(p, 'w') and write(text), the parent directories made
Write(tree, p, text) == [q \in DOMAIN tree \cup {p} |-> IF q = p THEN text ELSE tree[q]]

\* line 89, relative to the input root
TemplateFile(template_name) == <<TEMPLATES, Part(template_name, HTML)>>

\* line 88
TemplateName(frontmatter) == Strip(Get(frontmatter, KEY_TEMPLATE, DEFAULT))

\* lines 81 and 109, relative to the output root
OutputFile(file, root) == WithSuffix(RelativeTo(file, root), HTML)

\* lines 96-106: the template patched, then the four replacements in turn,
\* each made over the whole text the one before it left
Page(template_text, file, root, frontmatter, content) ==
    LET t0 == patch_referenced_files(template_text, file).html
        t1 == Replace(t0, DOC_TITLE, Get(frontmatter, KEY_TITLE, <<>>))
        t2 == IF KEY_DATE \in DOMAIN frontmatter
              THEN Replace(t1, DOC_DATE, WRITTEN \o frontmatter[KEY_DATE])
              ELSE Replace(t1, DOC_DATE, <<>>)
        t3 == Replace(t2, DOC_CONTENT, markdown(content))
    IN  Replace(t3, BREADCRUMBS, gen_breadcrumbs_html(file, root))

Raise(error, out) == [status |-> "error", error |-> error, out |-> out]

\* A variant of line 90 in which the output file is opened for writing
\* before the template is looked for
MissingTemplateAfterOpen(out, output_file) ==
    Raise("AssertionError", Write(out, output_file, <<>>))

\* line 90: the assertion fails, and nothing has touched the output file
MissingTemplate(out, output_file) == Raise("AssertionError", out)

\* lines 89-112, the template's path (relative to the input root) resolved
RenderWith(template_file, parsed, file, root, tree, out) ==
    IF template_file \notin DOMAIN tree THEN MissingTemplate(out, OutputFile(file, root))
    ELSE [status |-> "ok", error |-> "",
          out |-> Write(out, OutputFile(file, root),
                        Page(tree[template_file], file, root, parsed.frontmatter.map,
                             parsed.content))]

\* lines 88-112, the document parsed: frontmatter.get raises unless the
\* frontmatter is a mapping
RenderParsed(parsed, file, root, tree, out) ==
    IF parsed.frontmatter.kind # "mapping" THEN Raise("AttributeError", out)
    ELSE RenderWith(TemplateFile(TemplateName(parsed.frontmatter.map)), parsed, file,
                    root, tree, out)

\* lines 78-112: open(file) raises when the file is gone, relative_to when
\* the file's parts do not start with the input root's.  The result holds
\* the output tree the call leaves.
process_markdown(file, root, tree, out) ==
    IF ~IsFile(file, root, tree) THEN Raise("FileNotFoundError", out)
    ELSE IF ~IsPrefix(root, file) THEN Raise("ValueError", out)
    ELSE RenderParsed(parse_frontmatter(ReadFile(file, root, tree)), file, root, tree, out)

\* What the log of a run keeps of one call of process_markdown, r being
\* what the call returned: the output file of the document before the call
\* and after it
Call(file, root, out, r) ==
    [file |-> file, status |-> r.status, error |-> r.error,
     before |-> IF IsPrefix(root, file) THEN FileAt(out, OutputFile(file, root)) ELSE Absent,
     after |-> IF IsPrefix(root, file) THEN FileAt(r.out, OutputFile(file, root)) ELSE Absent]

-----------------------------------------------------------------------------
(* walk_dir and process_all *)

DIRECT_COPY_EXTENSIONS ==
    { HTML, CSS, <<".", "j", "s">>, PNG, <<".", "j", "p", "g">>, <<".", "s", "v", "g">> }

InParts(part, p) == \E i \in 1..Len(p) : p[i] = part

\* The orders in which os.walk, top-down, can yield the files `files` (paths
\* relative to the walked directory): the files of a directory come before
\* those of its subdirectories, and the files below any directory come in
\* one block; the order within a directory is the file system's
WalkOrders(files) ==
    { order \in [1..Cardinality(files) -> files] :
        /\ \A i, j \in 1..Cardinality(files) : i # j => order[i] # order[j]
        /\ \A i, j \in 1..Cardinality(files) :
              (i < j) => ~( /\ IsPrefix(Parent(order[j]), Parent(order[i]))
                           /\ Parent(order[j]) # Parent(order[i]) )
        /\ \A i, j, k \in 1..Cardinality(files) :
              (i < j /\ j < k) =>
                  \A n \in 0..Len(Parent(order[i])) :
                      IsPrefix(SubSeq(order[i], 1, n), Parent(order[k]))
                          => IsPrefix(SubSeq(order[i], 1, n), Parent(order[j])) }

\* lines 23-27: the files below `dir` (relative to the input root) whose
\* suffix is one of `extensions`
walk_dir(tree, dir, extensions) ==
    {p \in DOMAIN tree : IsPrefix(dir, Parent(p)) /\ Suffix(p) \in extensions}

\* lines 116-124: the files copied from the input tree, those with
\* _templates among the parts of their path (the input root's included) left out
CopiedFromTree(root, tree) ==
    {p \in walk_dir(tree, <<>>, DIRECT_COPY_EXTENSIONS) : ~InParts(TEMPLATES, root \o p)}

\* lines 127-133: the files copied from _templates, the .html ones left out
CopiedFromTemplates(tree) ==
    walk_dir(tree, <<TEMPLATES>>, DIRECT_COPY_EXTENSIONS \ {HTML})

\* shutil.copy of both sets to the mirrored paths
CopyAll(root, tree, out) ==
    [p \in DOMAIN out \cup CopiedFromTree(root, tree) \cup CopiedFromTemplates(tree) |->
        IF p \in CopiedFromTree(root, tree) \cup CopiedFromTemplates(tree)
        THEN tree[p] ELSE out[p]]

\* lines 136-137: the files the last loop hands to process_markdown
MarkdownFiles(tree) == walk_dir(tree, <<>>, {MD})

RECURSIVE RenderAll(_, _, _, _, _)
RECURSIVE RenderNext(_, _, _, _, _, _)
\* lines 136-137 over the files in the order of the walk
RenderAll(order, root, tree, out, log) ==
    IF order = <<>> THEN [status |-> "ok", out |-> out, log |-> log]
    ELSE RenderNext(process_markdown(root \o Head(order), root, tree, out),
                    order, root, tree, out, log)

\* r being what process_markdown returned for the first file of the order:
\* an exception ends the loop, and process_all with it
RenderNext(r, order, root, tree, out, log) ==
    IF r.status = "error"
    THEN [status |-> "error", out |-> r.out,
          log |-> Append(log, Call(root \o Head(order), root, out, r))]
    ELSE RenderAll(Tail(order), root, tree, r.out,
                   Append(log, Call(root \o Head(order), root, out, r)))

\* lines 114-137, the walk yielding the markdown files in `order`
process_all(root, tree, out, order) ==
    RenderAll(order, root, tree, CopyAll(root, tree, out), <<>>)

NoRun == [handler |-> "none", tree |-> NoTree, status |-> "ok", log |-> <<>>]

Run(handler, tree, status, log) ==
    [handler |-> handler, tree |-> tree, status |-> status, log |-> log]

-----------------------------------------------------------------------------
(* main and the watch mode *)

MaxEvents == 2   \* file changes made while the watcher runs

TPL_DEFAULT ==
    <<"<", "a", " ", "h", "r", "e", "f", "=", "\"", "s", "\"", ">", "$", "$",
      "D", "O", "C", "_", "T", "I", "T", "L", "E", "$", "$", "|", "$", "$",
      "D", "O", "C", "_", "D", "A", "T", "E", "$", "$", "|", "$", "$", "B",
      "R", "E", "A", "D", "C", "R", "U", "M", "B", "S", "$", "$", "|", "$",
      "$", "D", "O", "C", "_", "C", "O", "N", "T", "E", "N", "T", "$", "$">>
TPL_POST ==
    <<"<", "b", ">", "$", "$", "D", "O", "C", "_", "T", "I", "T", "L", "E",
      "$", "$", "<", "/", "b", ">", "$", "$", "D", "O", "C", "_", "C", "O",
      "N", "T", "E", "N", "T", "$", "$">>
DOC_HOME ==
    <<"-", "-", "-", "\n", "t", "i", "t", "l", "e", ":", " ", "H", "o", "m",
      "e", "\n", "-", "-", "-", "\n", "#", " ", "H", "i">>
DOC_POST ==
    <<"-", "-", "-", "\n", "t", "e", "m", "p", "l", "a", "t", "e", ":", " ",
      "p", "o", "s", "t", "\n", "t", "i", "t", "l", "e", ":", " ", "T", "\n",
      "d", "a", "t", "e", ":", " ", "2", "0", "2", "4", "-", "0", "1", "-",
      "0", "2", "\n", "-", "-", "-", "\n", "H", "i">>
DOC_INJECT ==
    <<"-", "-", "-", "\n", "t", "i", "t", "l", "e", ":", " ", "$", "$", "D",
      "O", "C", "_", "C", "O", "N", "T", "E", "N", "T", "$", "$", "\n", "-",
      "-", "-", "\n", "H", "i">>
DOC_PLAIN == <<"H", "i">>
DOC_ONE_DELIMITER == <<"-", "-", "-", "\n", "H", "i">>
DOC_EMPTY_BLOCK == <<"-", "-", "-", "\n", "-", "-", "-", "\n", "H", "i">>
RAW_HTML == <<"<", "i", ">", "r", "a", "w", "<", "/", "i", ">">>
PNG_1 == <<"p", "n", "g", "1">>
PNG_2 == <<"p", "n", "g", "2">>
CSS_1 == <<"c", "s", "s">>

P_DEFAULT == <<TEMPLATES, Part(DEFAULT, HTML)>>
P_POST == <<TEMPLATES, Part(<<"p", "o", "s", "t">>, HTML)>>
P_STYLE == <<TEMPLATES, Part(<<"s">>, CSS)>>
P_NOTES == <<TEMPLATES, Part(<<"n">>, MD)>>
P_INDEX == <<Part(INDEX, MD)>>
P_PAGE_MD == <<Part(PAGE, MD)>>
P_PAGE_HTML == <<Part(PAGE, HTML)>>
P_SUB == <<Dir(<<"a">>), Part(PAGE, MD)>>
P_LOGO == <<Dir(<<"a">>), Part(<<"l">>, PNG)>>

\* The tree that holds the files named by the pairs <<path, text>>
TreeOf(pairs) ==
    [p \in {x[1] : x \in pairs} |-> (CHOOSE x \in pairs : x[1] = p)[2]]

\* The input trees main() may find: a site with two templates, a style
\* sheet, two documents and an image; a document whose title holds a
\* placeholder token; a document beside an .html file of its name; a
\* markdown file in _templates; documents without frontmatter (no
\* delimiter, one delimiter, an empty block); a document whose template is
\* missing
InitialTrees ==
    { TreeOf({<<P_DEFAULT, TPL_DEFAULT>>, <<P_POST, TPL_POST>>, <<P_STYLE, CSS_1>>,
              <<P_INDEX, DOC_HOME>>, <<P_SUB, DOC_POST>>, <<P_LOGO, PNG_1>>}),
      TreeOf({<<P_DEFAULT, TPL_DEFAULT>>, <<P_INDEX, DOC_INJECT>>}),
      TreeOf({<<P_DEFAULT, TPL_DEFAULT>>, <<P_PAGE_MD, DOC_HOME>>,
              <<P_PAGE_HTML, RAW_HTML>>}),
      TreeOf({<<P_DEFAULT, TPL_DEFAULT>>, <<P_NOTES, DOC_HOME>>, <<P_INDEX, DOC_HOME>>}),
      TreeOf({<<P_DEFAULT, TPL_DEFAULT>>, <<P_INDEX, DOC_PLAIN>>}),
      TreeOf({<<P_DEFAULT, TPL_DEFAULT>>, <<P_INDEX, DOC_ONE_DELIMITER>>}),
      TreeOf({<<P_DEFAULT, TPL_DEFAULT>>, <<P_INDEX, DOC_EMPTY_BLOCK>>}),
      TreeOf({<<P_DEFAULT, TPL_DEFAULT>>, <<P_SUB, DOC_POST>>, <<P_LOGO, PNG_1>>}) }

\* The files a change may create or modify while the watcher runs
Paths == {P_INDEX, P_SUB, P_POST, P_LOGO}

\* The texts a change may give a file
Texts(p) ==
    IF p = P_INDEX THEN {DOC_HOME, DOC_PLAIN}
    ELSE IF p = P_SUB THEN {DOC_POST}
    ELSE IF p = P_POST THEN {TPL_POST}
    ELSE {PNG_2}

\* The input root as given: site or /site
SiteRoots == {<<SITE>>, <<ROOT_DIR, SITE>>}

Init ==
    /\ input_root \in SiteRoots
    /\ inTree \in InitialTrees
    /\ watch \in BOOLEAN
    /\ outTree = NoTree
    /\ pc = "start"
    /\ queue = <<>>
    /\ observer = "none"
    /\ last = NoRun
    /\ events = 0
    /\ doc = <<>> /\ tmpl = <<>> /\ result = [op |-> "none"]

\* lines 147-155: the first pass.  An exception ends the process; otherwise
\* the observer is started when --watch was given
MainProcessAll ==
    /\ pc = "start"
    /\ \E order \in WalkOrders(MarkdownFiles(inTree)) :
          \E r \in {process_all(input_root, inTree, outTree, order)} :
              /\ outTree' = r.out
              /\ last' = Run("process_all", inTree, r.status, r.log)
              /\ pc' = IF r.status = "error" THEN "crashed"
                       ELSE IF watch THEN "watching" ELSE "done"
              /\ observer' = IF r.status = "ok" /\ watch THEN "running" ELSE observer
    /\ UNCHANGED <<input_root, doc, tmpl, result, inTree, queue, watch, events>>

\* A file of the input tree is created or modified while the observer is
\* scheduled: the observer queues one event, whose src_path is the input
\* root followed by the file's path
FileWritten ==
    /\ pc = "watching"
    /\ events < MaxEvents
    /\ \E p \in Paths : \E text \in Texts(p) :
          /\ FileAt(inTree, p) # [exists |-> TRUE, text |-> text]
          /\ inTree' = Write(inTree, p, text)
          /\ queue' = Append(queue, input_root \o p)
    /\ events' = events + 1
    /\ UNCHANGED <<input_root, doc, tmpl, result, outTree, pc, observer, watch, last>>

\* A file of the input tree is deleted while the observer is scheduled
FileDeleted ==
    /\ pc = "watching"
    /\ events < MaxEvents
    /\ \E p \in DOMAIN inTree :
          /\ inTree' = [q \in DOMAIN inTree \ {p} |-> inTree[q]]
          /\ queue' = Append(queue, input_root \o p)
    /\ events' = events + 1
    /\ UNCHANGED <<input_root, doc, tmpl, result, outTree, pc, observer, watch, last>>

\* event_src_relative.endswith('.md')
EndsWithMd(p) == Suffix(p) = MD

\* The end of one dispatch: an exception that on_any_event lets out ends the
\* observer's dispatching thread, which nothing restarts
AfterHandler(status) == IF status = "error" THEN "dead" ELSE "running"

\* lines 160-164: the observer's thread dispatches the oldest event, a
\* change of a markdown file
OnMarkdownEvent ==
    /\ pc = "watching" /\ observer = "running" /\ queue # <<>>
    /\ EndsWithMd(Relpath(Head(queue)))
    /\ \E r \in {process_markdown(Relpath(Head(queue)), input_root, inTree, outTree)} :
          /\ outTree' = r.out
          /\ last' = Run("process_markdown", inTree, r.status,
                         <<Call(Relpath(Head(queue)), input_root, outTree, r)>>)
          /\ observer' = AfterHandler(r.status)
    /\ queue' = Tail(queue)
    /\ UNCHANGED <<input_root, doc, tmpl, result, inTree, pc, watch, events>>

\* lines 160-166: the observer's thread dispatches the oldest event, a
\* change of any other file
OnOtherEvent ==
    /\ pc = "watching" /\ observer = "running" /\ queue # <<>>
    /\ ~EndsWithMd(Relpath(Head(queue)))
    /\ \E order \in WalkOrders(MarkdownFiles(inTree)) :
          \E r \in {process_all(input_root, inTree, outTree, order)} :
              /\ outTree' = r.out
              /\ last' = Run("process_all", inTree, r.status, r.log)
              /\ observer' = AfterHandler(r.status)
    /\ queue' = Tail(queue)
    /\ UNCHANGED <<input_root, doc, tmpl, result, inTree, pc, watch, events>>

\* lines 171-176: KeyboardInterrupt stops the observer and main() returns
Interrupt ==
    /\ pc = "watching"
    /\ pc' = "done"
    /\ observer' = "stopped"
    /\ UNCHANGED <<input_root, doc, tmpl, result, inTree, outTree, queue, watch,
                   last, events>>

Next ==
    \/ MainProcessAll
    \/ FileWritten
    \/ FileDeleted
    \/ OnMarkdownEvent
    \/ OnOtherEvent
    \/ Interrupt

Spec == Init /\ [][Next]_vars

-----------------------------------------------------------------------------
(* Inputs of the specifications of the pure functions *)

MaxDepth == 2   \* directories between the input root and a document
MaxAttrs == 2   \* href/src attributes in a template

\* Input roots: site, /site, www/site, / and . (whose parts are empty)
Roots == {<<SITE>>, <<ROOT_DIR, SITE>>, <<WWW, SITE>>, <<ROOT_DIR>>, <<>>}

DirNames == <<Dir(<<"a">>), Dir(<<"b">>), Dir(<<"c">>), Dir(<<"d">>)>>

\* The path walk_dir yields for the document `stem`.md that lies k
\* directories below the root: Path(root) / file, root being the input root
\* followed by the directories os.walk descended
DocAt(root, k, stem) == root \o SubSeq(DirNames, 1, k) \o <<Part(stem, MD)>>

Docs(root) == {DocAt(root, k, stem) : k \in 0..MaxDepth, stem \in {PAGE, INDEX}}

Attrs ==
    { HREF \o EQ_QUOTE \o <<"a">> \o QUOTE,
      SRC \o EQ_QUOTE \o <<"b">> \o QUOTE,
      HREF \o EQ_QUOTE \o HTTP \o <<":", "x">> \o QUOTE,
      HREF \o EQ_QUOTE \o HASH \o <<"f">> \o QUOTE }

\* Templates: a tag holding 1 .. MaxAttrs attributes, in any order
TemplateTexts ==
    { <<"<">> \o Join(<<" ">>, as) \o <<">">> :
        as \in UNION {[1..n -> Attrs] : n \in 1..MaxAttrs} }

\* The site plays no part in the specifications of the pure functions
SiteIdle ==
    /\ inTree = NoTree /\ outTree = NoTree /\ pc = "idle" /\ queue = <<>>
    /\ observer = "none" /\ watch = FALSE /\ last = NoRun /\ events = 0

InitPure ==
    /\ input_root \in Roots
    /\ doc \in Docs(input_root)
    /\ tmpl \in TemplateTexts
    /\ result = [op |-> "none"]
    /\ SiteIdle

\* process_markdown's call of line 96
CallPatch ==
    /\ result.op = "none"
    /\ \E r \in {patch_referenced_files(tmpl, doc)} :
          result' = [op |-> "patch", html |-> r.html, printed |-> r.printed]
    /\ UNCHANGED <<input_root, doc, tmpl, inTree, outTree, pc, queue, observer,
                   watch, last, events>>

\* process_markdown's call of line 106
CallCrumbs ==
    /\ result.op = "none"
    /\ \E crumbs \in {Crumbs(doc, input_root)} :
          result' = [op |-> "crumbs", html |-> RenderCrumbs(crumbs), crumbs |-> crumbs]
    /\ UNCHANGED <<input_root, doc, tmpl, inTree, outTree, pc, queue, observer,
                   watch, last, events>>

NextPure == CallPatch \/ CallCrumbs

SpecPure == InitPure /\ [][NextPure]_vars

\* The attribute values of a template that line 34 lets through, in order
RECURSIVE RelativeFiles(_)
RelativeFiles(matches) ==
    IF matches = <<>> THEN <<>>
    ELSE (IF IsRelative(Head(matches).file) THEN <<Head(matches).file>> ELSE <<>>)
             \o RelativeFiles(Tail(matches))

\* Directories between the input root and the document
DirsBetween(root, file) == Len(RelativeTo(file, root)) - 1

\* C2: for every input root and every document under it, each rewritten
\* value is the original value behind as many ../ as there are directories
\* between the input root and the document, followed by _templates/.
C2_PrefixMatchesDepth ==
    result.op = "patch" =>
        /\ Len(result.printed) = Len(RelativeFiles(FindIter(tmpl, 0)))
        /\ \A i \in 1..Len(result.printed) :
              result.printed[i] =
                  Repeat(DOTDOTSLASH, DirsBetween(input_root, doc)) \o TEMPLATES_DIR
                      \o SLASH \o RelativeFiles(FindIter(tmpl, 0))[i]

\* A document directly under the absolute root /site has been patched
C2_Witness ==
    /\ result.op = "patch"
    /\ input_root = <<ROOT_DIR, SITE>>
    /\ DirsBetween(input_root, doc) = 0
    /\ Len(result.printed) > 0

RECURSIVE Rewritten(_, _, _, _)
\* The template with each relative value replaced by its asset path and
\* every other character kept
Rewritten(s, matches, from, markdown_file) ==
    IF matches = <<>> THEN SliceFrom(s, from)
    ELSE Slice(s, from, Head(matches).start2)
            \o (IF IsRelative(Head(matches).file)
                THEN AssetPath(Head(matches).file, markdown_file)
                ELSE Head(matches).file)
            \o Rewritten(s, Tail(matches), Head(matches).end2, markdown_file)

\* C3: the result is the template with each relative href/src value
\* replaced by the asset prefix and the value, every other character
\* (http and # values included) unmodified, for any number of attributes.
C3_OnlyRelativeValuesRewritten ==
    result.op = "patch" => result.html = Rewritten(tmpl, FindIter(tmpl, 0), 0, doc)

\* A template with two relative values has been patched
C3_Witness ==
    result.op = "patch" /\ Len(RelativeFiles(FindIter(tmpl, 0))) >= 2

-----------------------------------------------------------------------------
(* Breadcrumb claims *)

IsIndexDoc(file) == file[Len(file)].stem = INDEX

\* The names of the directories d1 .. dn between the input root and the document
DirLabels(root, file) ==
    [i \in 1..DirsBetween(root, file) |-> Name(SubSeq(file, 1, Len(root) + i))]

Names(crumbs) == [i \in 1..Len(crumbs) |-> crumbs[i].name]

\* C4 as stated: a non-index document n >= 1 directories below the root
\* gets exactly n+1 crumbs, labelled root, d1, ..., dn; its own file name is
\* not a crumb.
C4_CrumbsAreRootAndDirs ==
    (result.op = "crumbs" /\ ~IsIndexDoc(doc) /\ DirsBetween(input_root, doc) >= 1) =>
        Names(result.crumbs) = <<ROOT_LABEL>> \o DirLabels(input_root, doc)

\* C4 as amended: a non-index document n >= 1 directories below the root
\* gets exactly n+2 crumbs, labelled root, d1, ..., dn and, last, its own
\* file name without the suffix.
C4_CrumbsAreRootDirsAndPage ==
    (result.op = "crumbs" /\ ~IsIndexDoc(doc) /\ DirsBetween(input_root, doc) >= 1) =>
        /\ Len(result.crumbs) = DirsBetween(input_root, doc) + 2
        /\ Names(result.crumbs) =
               <<ROOT_LABEL>> \o DirLabels(input_root, doc) \o <<doc[Len(doc)].stem>>

\* The crumbs of /a/b/page.md under the root / have been rendered
C4_Witness ==
    /\ result.op = "crumbs"
    /\ input_root = <<ROOT_DIR>>
    /\ doc = DocAt(<<ROOT_DIR>>, 2, PAGE)
    /\ Len(result.crumbs) = 4

RECURSIVE Count(_, _)
\* s.count(p)
Count(s, p) ==
    IF Find(s, p, 0) = -1 THEN 0
    ELSE 1 + Count(SliceFrom(s, Find(s, p, 0) + Len(p)), p)

\* C5: for every document, index or not, the crumb of the directory k
\* levels above the document's directory is linked with exactly k `..`
\* segments, the document's own directory with none.  The first n+1 crumbs
\* name the root and the n directories down to the document's.
C5_LinkDepthMatchesDirectory ==
    result.op = "crumbs" =>
        \A i \in 1..Len(result.crumbs) :
            i <= DirsBetween(input_root, doc) + 1 =>
                Count(result.crumbs[i].href, DOTDOT) =
                    DirsBetween(input_root, doc) + 1 - i

\* The crumbs of a non-index document in a subdirectory have been rendered
C5_Witness ==
    /\ result.op = "crumbs"
    /\ ~IsIndexDoc(doc)
    /\ DirsBetween(input_root, doc) = 1
    /\ Len(result.crumbs) = 3

-----------------------------------------------------------------------------
(* Claims about process_markdown, process_all and the watch mode *)

\* The calls of process_markdown the last run made on a document that lies
\* under the input root and that could be read
ReadCalls ==
    {i \in 1..Len(last.log) :
        /\ IsPrefix(input_root, last.log[i].file)
        /\ RelativeTo(last.log[i].file, input_root) \in DOMAIN last.tree}

\* The text call i read
CallText(i) == last.tree[RelativeTo(last.log[i].file, input_root)]

\* No `---`, one `---` only, or nothing but blanks between the two
HasNoFrontmatter(text) ==
    \/ Find(text, DASHES, 0) = -1
    \/ Find(text, DASHES, Find(text, DASHES, 0) + 3) = -1
    \/ Strip(Slice(text, Find(text, DASHES, 0) + 3,
                   Find(text, DASHES, Find(text, DASHES, 0) + 3))) = <<>>

\* C1: for a document without frontmatter process_markdown does not fail,
\* takes the template default, puts the empty text for the title and the
\* date, and writes the page, provided _templates/default.html exists.
C1_NoFrontmatterRendersWithDefault ==
    \A i \in ReadCalls :
        (HasNoFrontmatter(CallText(i)) /\ P_DEFAULT \in DOMAIN last.tree) =>
            /\ last.log[i].status = "ok"
            /\ last.log[i].after =
                   [exists |-> TRUE,
                    text |-> Page(last.tree[P_DEFAULT], last.log[i].file, input_root,
                                  NoTree, parse_frontmatter(CallText(i)).content)]

\* process_markdown has been called on a document without frontmatter
C1_Witness ==
    \E i \in ReadCalls :
        HasNoFrontmatter(CallText(i)) /\ P_DEFAULT \in DOMAIN last.tree

\* The template call i resolves, relative to the input root
ResolvedTemplate(i) ==
    TemplateFile(Strip(Get(parse_frontmatter(CallText(i)).frontmatter.map,
                           KEY_TEMPLATE, DEFAULT)))

\* The calls whose document has a frontmatter mapping that resolves to a
\* template file that does not exist
MissingTemplateCalls ==
    {i \in ReadCalls :
        /\ parse_frontmatter(CallText(i)).frontmatter.kind = "mapping"
        /\ ResolvedTemplate(i) \notin DOMAIN last.tree}

\* C6: when the template resolved for a document does not exist,
\* process_markdown fails before it renders: the call neither creates nor
\* modifies the document's output file.
C6_MissingTemplateLeavesOutput ==
    \A i \in MissingTemplateCalls :
        /\ last.log[i].status = "error"
        /\ last.log[i].after = last.log[i].before

\* A call failed on a missing template while the document's output file,
\* written by an earlier pass, existed
C6_Witness ==
    \E i \in MissingTemplateCalls :
        last.log[i].status = "error" /\ last.log[i].before.exists

\* The markdown files of the tree that lie outside _templates
PagesOutsideTemplates(tree) == {p \in MarkdownFiles(tree) : ~InParts(TEMPLATES, p)}

\* C7: a full pass calls process_markdown once for each markdown file
\* outside _templates and never for a markdown file inside _templates.
C7_TemplatesNeverRendered ==
    last.handler = "process_all" =>
        /\ \A i \in 1..Len(last.log) :
              ~InParts(TEMPLATES, RelativeTo(last.log[i].file, input_root))
        /\ last.status = "ok" =>
              /\ {RelativeTo(last.log[i].file, input_root) : i \in 1..Len(last.log)}
                     = PagesOutsideTemplates(last.tree)
              /\ Len(last.log) = Cardinality(PagesOutsideTemplates(last.tree))

\* A full pass has run over a tree that holds a markdown file in _templates
C7_Witness ==
    /\ last.handler = "process_all"
    /\ \E p \in MarkdownFiles(last.tree) : InParts(TEMPLATES, p)

\* The passthrough files of the tree that lie outside _templates
Passthrough(tree) ==
    {p \in DOMAIN tree : Suffix(p) \in DIRECT_COPY_EXTENSIONS /\ ~InParts(TEMPLATES, p)}

\* C8: when a full pass completes without error, every passthrough file
\* outside _templates has, at the mirrored path of the output tree, a file
\* of the same content, whatever else the tree holds.
C8_PassthroughIdentical ==
    (last.handler = "process_all" /\ last.status = "ok") =>
        \A p \in Passthrough(last.tree) :
            FileAt(outTree, p) = [exists |-> TRUE, text |-> last.tree[p]]

\* A full pass has completed over a tree that holds a passthrough .html file
C8_Witness ==
    /\ last.handler = "process_all" /\ last.status = "ok"
    /\ \E p \in Passthrough(last.tree) : Suffix(p) = HTML

\* C9: in watch mode a failure while one event is handled ends that pass
\* only: the watcher keeps running, so that every later event is still
\* dispatched and handled.  While main() is in its watch loop, then, the
\* observer's dispatching thread is alive.
C9_WatcherSurvivesFailure == pc = "watching" => observer = "running"

\* An event handler has failed while main() is in its watch loop
C9_Witness ==
    pc = "watching" /\ last.status = "error" /\ last.handler # "none"

RECURSIVE Substitute(_, _)
\* The text s with each token of `values` that occurs in it replaced, the
\* replacements themselves left as they are
Substitute(s, values) ==
    IF s = <<>> THEN <<>>
    ELSE IF \E t \in DOMAIN values : StartsWith(s, t)
    THEN values[CHOOSE t \in DOMAIN values : StartsWith(s, t)]
            \o Substitute(SliceFrom(s, Len(CHOOSE t \in DOMAIN values : StartsWith(s, t))),
                          values)
    ELSE <<Head(s)>> \o Substitute(Tail(s), values)

\* The four values process_markdown substitutes for call i
Values(i) ==
    LET parsed == parse_frontmatter(CallText(i))
        title == Get(parsed.frontmatter.map, KEY_TITLE, <<>>)
        date == IF KEY_DATE \in DOMAIN parsed.frontmatter.map
                THEN WRITTEN \o parsed.frontmatter.map[KEY_DATE] ELSE <<>>
        content == markdown(parsed.content)
        crumbs == gen_breadcrumbs_html(last.log[i].file, input_root)
    IN  [t \in {DOC_TITLE, DOC_DATE, DOC_CONTENT, BREADCRUMBS} |->
            IF t = DOC_TITLE THEN title
            ELSE IF t = DOC_DATE THEN date
            ELSE IF t = DOC_CONTENT THEN content ELSE crumbs]

\* C10: substitution acts only on the tokens of the template text: the
\* title, the date text and the content fragment appear verbatim in the
\* page, a token inside one of them not being replaced by a later step.
C10_ValuesAppearVerbatim ==
    \A i \in ReadCalls :
        last.log[i].status = "ok" =>
            last.log[i].after.text =
                Substitute(patch_referenced_files(last.tree[ResolvedTemplate(i)],
                                                  last.log[i].file).html,
                           Values(i))

\* A page has been written for a document whose title holds a placeholder token
C10_Witness ==
    \E i \in ReadCalls :
        /\ last.log[i].status = "ok"
        /\ Find(Values(i)[DOC_TITLE], DOC_CONTENT, 0) # -1

====
